---- MODULE Spec2Model ----
(***************************************************************************)
(* nvim_switcher (src/src/main.rs): a version manager that downloads       *)
(* release archives into a cache directory, unpacks one of them into       *)
(* <cache>/current and publishes its bin, lib and share entries as         *)
(* symlinks under $HOME/.local.                                            *)
(*                                                                         *)
(* The state is the part of the filesystem the program reads and writes.   *)
(* Every command (download, switch, current, purge) is one action; the     *)
(* functions of main.rs are operators from a filesystem record to the set  *)
(* of outcomes the function can produce (the set has several elements      *)
(* where the environment decides: the network, a write, an unpack, the     *)
(* order in which read_dir yields entries).                                *)
(*                                                                         *)
(* Environment assumptions: fs::create_dir_all in cache_dir/output_dir     *)
(* succeeds (the code unwraps it), and the fs::remove_file that cleans up  *)
(* after a failed write succeeds (the code discards its result; the file   *)
(* was created by the same call a moment earlier).                         *)
(***************************************************************************)
EXTENDS Integers, Sequences, FiniteSets, TLC

VARIABLES cacheDir, currentDir, cache, active, pub, pubDirs, last

vars == <<cacheDir, currentDir, cache, active, pub, pubDirs, last>>

-----------------------------------------------------------------------------
(* Bounds and inputs *)

\* how many entries not made by the program the publish root holds at the start
MaxForeign == 1

\* the version strings a user passes on the command line; "None" is also the
\* text current() answers when nothing is installed
Versions == {"v1", "v2", "v3", "None"}

GITHUB_BASE_URL == "https://github.com/neovim/neovim/releases/download/"

url(version) == GITHUB_BASE_URL \o version \o "/nvim-linux64.tar.gz"

\* the URLs the remote answers with a success status and a body
Remote == {url("v1"), url("v2"), url("v3")}

Dir(p) == [path |-> p, kind |-> "dir"]
File(p) == [path |-> p, kind |-> "file"]

\* the entries of the archive served for a version, in archive order, as paths
\* below the release folder nvim-linux64 (unpacking an entry creates the
\* directories above it):
\*   v1: bin/nvim, lib/libA, share/E1/c1
\*   v2: bin/nvim, lib/libB, share/E1/c1 and an empty directory share/E2
\*   v3: an empty directory lib, bin/nvim, and a plain file share/F
ArchiveOf(version) ==
    CASE version = "v1" ->
           << File(<<"bin", "nvim">>), File(<<"lib", "libA">>),
              File(<<"share", "E1", "c1">>) >>
      [] version = "v2" ->
           << File(<<"bin", "nvim">>), File(<<"lib", "libB">>),
              File(<<"share", "E1", "c1">>), Dir(<<"share", "E2">>) >>
      [] version = "v3" ->
           << Dir(<<"lib">>), File(<<"bin", "nvim">>), File(<<"share", "F">>) >>
      [] OTHER -> << >>

\* what running `nvim --version` of a version's executable can produce:
\* spawned (did the process start), utf8 (is stdout valid text), lines (stdout
\* split into lines, each line split into whitespace-delimited fields)
Stdout(spawned, utf8, lines) == [spawned |-> spawned, utf8 |-> utf8, lines |-> lines]

ProbeOutputs(version) ==
    CASE version = "v1" -> { Stdout(TRUE, TRUE, << <<"NVIM", "v1">>, <<"Build", "type:", "Release">> >>) }
      [] version = "v2" -> { Stdout(TRUE, TRUE, << <<"NVIM", "v2">> >>) }
      [] OTHER -> { Stdout(FALSE, TRUE, << >>),
                    Stdout(TRUE, FALSE, << >>),
                    Stdout(TRUE, TRUE, << >>),
                    Stdout(TRUE, TRUE, << <<"NVIM">> >>) }

AllEntries == UNION { { ArchiveOf(v)[i] : i \in 1..Len(ArchiveOf(v)) } : v \in Versions }

Parent(p) == SubSeq(p, 1, Len(p) - 1)

\* the paths below $HOME/.local at which the program can place a symlink: the
\* entries directly under bin and lib and the children of the share entries
\* (a path below nvim-linux64 and its published path below .local coincide)
PubPaths ==
    { e.path : e \in { x \in AllEntries :
                         \/ Len(x.path) = 2 /\ x.path[1] \in {"bin", "lib"}
                         \/ Len(x.path) = 3 /\ x.path[1] = "share" } }

\* the directories below $HOME/.local that hold those symlinks
OutDirs == { Parent(p) : p \in PubPaths }

\* what a path of the publish root holds: nothing, a symlink made by the
\* program (its target is the same path below <cache>/current/nvim-linux64),
\* or an entry that is not the program's: a regular file, a directory, or a
\* symlink whose target does not exist
PubKinds == {"absent", "link", "file", "dir", "dangling"}
Foreign == {"file", "dir", "dangling"}

-----------------------------------------------------------------------------
(* The filesystem as a value, and the functions of main.rs over it *)

FS == [cacheDir |-> cacheDir, currentDir |-> currentDir, cache |-> cache,
       active |-> active, pub |-> pub, pubDirs |-> pubDirs]

\* fn path: the artifact's file name below the cache root
path(version) == "nvim-" \o version \o ".tar.gz"

ArtifactPaths == { path(v) : v \in Versions }

\* fn cache_dir: creates the cache root when it does not exist
cache_dir(s) == [s EXCEPT !.cacheDir = TRUE]

\* fn output_dir: creates <cache>/current when it does not exist
output_dir(s) == [cache_dir(s) EXCEPT !.currentDir = TRUE]

\* Path::exists on an artifact path
exists(s, p) == s.cache[p] # "absent"

ActivePaths(s) == { e.path : e \in s.active }

\* fs::read_dir on a directory of the active tree: the entries directly in it
children(s, dir) ==
    { SubSeq(e.path, 1, Len(dir) + 1) :
        e \in { x \in s.active : Len(x.path) > Len(dir) /\ SubSeq(x.path, 1, Len(dir)) = dir } }

\* whether a path of the active tree is a directory: an unpacked directory, or
\* one made for an entry below it
is_dir(s, dir) ==
    \E e \in s.active :
        \/ e.path = dir /\ e.kind = "dir"
        \/ Len(e.path) > Len(dir) /\ SubSeq(e.path, 1, Len(dir)) = dir

\* fs::remove_file on an artifact path
remove_file(s, p) == [s EXCEPT !.cache[p] = "absent"]

\* an outcome of download: the filesystem it leaves, what happened, whether
\* reqwest::blocking::get was called, and the path returned ("" with an Err)
DownloadOutcome(s, result, fetched, ret) ==
    [st |-> s, result |-> result, fetched |-> fetched, ret |-> ret]

\* store without the fs::remove_file of line 117
store_NoCleanup(s, p) ==
    LET created == [s EXCEPT !.cache[p] = "empty"]
    IN  { [st |-> s, result |-> "create_failed", fetched |-> TRUE, ret |-> ""],
          [st |-> [created EXCEPT !.cache[p] = "partial"], result |-> "write_failed",
           fetched |-> TRUE, ret |-> ""],
          [st |-> [created EXCEPT !.cache[p] = "full"], result |-> "downloaded",
           fetched |-> TRUE, ret |-> p] }

\* download, lines 106-124: File::create, then copy_to, then the clean-up of a
\* failed write. File::create leaves an empty file, a failed copy_to a
\* truncated one, which fs::remove_file takes away again.
store(s, p) ==
    LET created == [s EXCEPT !.cache[p] = "empty"]
        truncated == [created EXCEPT !.cache[p] = "partial"]
        complete == [created EXCEPT !.cache[p] = "full"]
    IN  { DownloadOutcome(s, "create_failed", TRUE, ""),
          DownloadOutcome(remove_file(truncated, p), "write_failed", TRUE, ""),
          DownloadOutcome(complete, "downloaded", TRUE, p) }

\* download, lines 88-104: the GET and its status
fetch(s, version, p) ==
    { DownloadOutcome(s, "net_error", TRUE, ""),
      DownloadOutcome(s, "bad_status", TRUE, "") }
    \cup (IF url(version) \in Remote THEN store(s, p) ELSE {})

\* download without the path.exists() test of line 82
download_AlwaysFetch(s, version) == fetch(cache_dir(s), version, path(version))

\* fn download
download(s, version) ==
    LET s1 == cache_dir(s)
        p == path(version)
    IN  IF exists(s1, p)
        THEN { DownloadOutcome(s1, "already_downloaded", FALSE, p) }
        ELSE fetch(s1, version, p)

\* purge that answers Ok for an artifact that is not there
purge_NoNotFound(s, version) ==
    LET s1 == cache_dir(s)
        p == path(version)
    IN  IF exists(s1, p)
        THEN { [st |-> remove_file(s1, p), result |-> "purged"],
               [st |-> s1, result |-> "remove_failed"] }
        ELSE { [st |-> s1, result |-> "purged"] }

\* purge that empties the cache of every artifact
purge_EveryArtifact(s, version) ==
    LET s1 == cache_dir(s)
        p == path(version)
    IN  IF exists(s1, p)
        THEN { [st |-> [s1 EXCEPT !.cache = [q \in ArtifactPaths |-> "absent"]],
                result |-> "purged"],
               [st |-> s1, result |-> "remove_failed"] }
        ELSE { [st |-> s1, result |-> "not_found"] }

\* fn purge
purge(s, version) ==
    LET s1 == cache_dir(s)
        p == path(version)
    IN  IF exists(s1, p)
        THEN { [st |-> remove_file(s1, p), result |-> "purged"],
               [st |-> s1, result |-> "remove_failed"] }
        ELSE { [st |-> s1, result |-> "not_found"] }

\* the first line's second whitespace-delimited field, lines 316-332:
\* "panic" is the unwrap of the first line of an output without lines
parse(out) ==
    IF ~out.spawned THEN [result |-> "err", value |-> ""]
    ELSE IF ~out.utf8 THEN [result |-> "err", value |-> ""]
    ELSE IF Len(out.lines) = 0 THEN [result |-> "panic", value |-> ""]
    ELSE IF Len(out.lines[1]) < 2 THEN [result |-> "err", value |-> ""]
    ELSE [result |-> "ok", value |-> out.lines[1][2]]

nvim == <<"bin", "nvim">>

\* what the executable in the active tree can print
ActiveOutputs(s) ==
    UNION { ProbeOutputs(e.ver) : e \in { x \in s.active : x.path = nvim } }

\* current that answers an error when there is no executable
current_ErrWhenMissing(s) ==
    LET s1 == output_dir(s)
    IN  IF nvim \notin ActivePaths(s1)
        THEN { [st |-> s1, result |-> "err", value |-> "", invoked |-> FALSE] }
        ELSE { [st |-> s1, result |-> parse(out).result, value |-> parse(out).value,
                invoked |-> TRUE] : out \in ActiveOutputs(s1) }

\* current that takes the first field of the first line instead of the second
current_FirstField(s) ==
    LET s1 == output_dir(s)
    IN  IF nvim \notin ActivePaths(s1)
        THEN { [st |-> s1, result |-> "ok", value |-> "None", invoked |-> FALSE] }
        ELSE { [st |-> s1, result |-> parse(out).result,
                value |-> IF parse(out).result = "ok" THEN out.lines[1][1] ELSE "",
                invoked |-> TRUE] : out \in ActiveOutputs(s1) }

\* fn current: the outcomes [st, result, value, invoked]; invoked says whether
\* Command::new(nvim).output() was called
current(s) ==
    LET s1 == output_dir(s)
    IN  IF nvim \notin ActivePaths(s1)
        THEN { [st |-> s1, result |-> "ok", value |-> "None", invoked |-> FALSE] }
        ELSE { [st |-> s1, result |-> parse(out).result, value |-> parse(out).value,
                invoked |-> TRUE] : out \in ActiveOutputs(s1) }

\* the version whose response body an artifact path holds
VersionOf(p) == CHOOSE v \in Versions : path(v) = p

\* tar's unpack of the first k entries of the artifact's archive into the
\* active directory: an entry replaces what is at its path, nothing else goes
unpack(s, p, k) ==
    LET new == { [path |-> ArchiveOf(VersionOf(p))[i].path,
                  kind |-> ArchiveOf(VersionOf(p))[i].kind,
                  ver |-> VersionOf(p)] : i \in 1..k }
    IN  [s EXCEPT !.active = { e \in @ : e.path \notin { n.path : n \in new } } \cup new]

\* fn extract: the whole archive, or an error after some of its entries (a
\* truncated artifact cannot be unpacked in full)
extract(s, p) ==
    LET n == Len(ArchiveOf(VersionOf(p)))
    IN  { [st |-> unpack(s, p, k), ok |-> FALSE] : k \in 0..(n - 1) }
        \cup (IF s.cache[p] = "full" THEN { [st |-> unpack(s, p, n), ok |-> TRUE] } ELSE {})

\* Path::exists on a path of the publish root; it follows symlinks
link_exists(s, link) ==
    \/ s.pub[link] \in {"file", "dir"}
    \/ s.pub[link] = "link" /\ link \in ActivePaths(s)

\* symlinks, lines 207-214, for one entry: whether remove-if-exists and the
\* symlink call both succeed. fs::remove_file fails on a directory, and
\* os::unix::fs::symlink fails when something is still at the link's path.
entry_ok(s, link) ==
    IF link_exists(s, link) THEN s.pub[link] # "dir" ELSE s.pub[link] = "absent"

\* symlinks that leaves an existing entry where it is instead of replacing it
symlinks_KeepExisting(s, original, output) ==
    LET names == { e[Len(e)] : e \in children(s, original) }
        fresh == { n \in names : ~link_exists(s, output \o <<n>>) }
        good == { n \in fresh : s.pub[output \o <<n>>] = "absent" }
        linked(S) == [s EXCEPT !.pubDirs = @ \cup {output},
                               !.pub = [q \in PubPaths |->
                                          IF q \in { output \o <<n>> : n \in S }
                                          THEN "link" ELSE @[q]]]
    IN  IF ~is_dir(s, original) THEN { [st |-> s, ok |-> FALSE] }
        ELSE IF names = {} THEN { [st |-> s, ok |-> TRUE] }
        ELSE IF good = fresh THEN { [st |-> linked(good), ok |-> TRUE] }
        ELSE { [st |-> linked(S), ok |-> FALSE] : S \in SUBSET good }

\* symlinks that replaces the output directory as a whole
symlinks_ReplaceDir(s, original, output) ==
    LET names == { e[Len(e)] : e \in children(s, original) }
    IN  IF ~is_dir(s, original) THEN { [st |-> s, ok |-> FALSE] }
        ELSE { [st |-> [s EXCEPT !.pubDirs = @ \cup {output},
                                 !.pub = [q \in PubPaths |->
                                            IF Parent(q) = output
                                            THEN (IF q \in { output \o <<n>> : n \in names }
                                                  THEN "link" ELSE "absent")
                                            ELSE @[q]]],
                ok |-> TRUE] }

\* fn symlinks: read_dir yields the entries in an order the OS chooses, so a
\* run that fails has linked any set of the entries that can be linked
symlinks(s, original, output) ==
    LET names == { e[Len(e)] : e \in children(s, original) }
        good == { n \in names : entry_ok(s, output \o <<n>>) }
        linked(S) == [s EXCEPT !.pubDirs = @ \cup {output},
                               !.pub = [q \in PubPaths |->
                                          IF q \in { output \o <<n>> : n \in S }
                                          THEN "link" ELSE @[q]]]
    IN  IF ~is_dir(s, original) THEN { [st |-> s, ok |-> FALSE] }
        ELSE IF names = {} THEN { [st |-> s, ok |-> TRUE] }
        ELSE IF good = names THEN { [st |-> linked(names), ok |-> TRUE] }
        ELSE { [st |-> linked(S), ok |-> FALSE] : S \in SUBSET good }

\* switch, lines 174-180: the loop over the entries of share, in any order
RECURSIVE share_loop(_, _)
share_loop(s, rest) ==
    IF rest = {} THEN { [st |-> s, ok |-> TRUE] }
    ELSE UNION { UNION { IF r.ok THEN share_loop(r.st, rest \ {e}) ELSE {r} :
                           r \in symlinks(s, e, e) } : e \in rest }

\* publish without the loop over share
publish_NoShare(s) ==
    UNION { IF ~b.ok THEN {b} ELSE symlinks(b.st, <<"lib">>, <<"lib">>) :
              b \in symlinks(s, <<"bin">>, <<"bin">>) }

\* switch, lines 159-180: bin, then lib, then every entry of share
publish(s) ==
    UNION { IF ~b.ok THEN {b}
            ELSE UNION { IF ~l.ok THEN {l}
                         ELSE IF ~is_dir(l.st, <<"share">>) THEN { [st |-> l.st, ok |-> FALSE] }
                         ELSE share_loop(l.st, children(l.st, <<"share">>)) :
                           l \in symlinks(b.st, <<"lib">>, <<"lib">>) } :
              b \in symlinks(s, <<"bin">>, <<"bin">>) }

SwitchOutcome(s, result, fetched) == [st |-> s, result |-> result, fetched |-> fetched]

\* fs::remove_dir_all on the active directory: everything goes, the directory
\* included
remove_dir_all(s) == [s EXCEPT !.active = {}, !.currentDir = FALSE]

\* install without the fs::remove_dir_all of line 150
install_NoClear(s, p, fetched) ==
    UNION { IF ~x.ok THEN { SwitchOutcome(x.st, "extract_failed", fetched) }
            ELSE { SwitchOutcome(r.st, IF r.ok THEN "switched" ELSE "publish_failed",
                                 fetched) : r \in publish(x.st) } :
              x \in extract(output_dir(s), p) }

\* install that reports success whatever the publish steps return
install_IgnorePublishError(s, p, fetched) ==
    LET s1 == output_dir(s)
        s2 == output_dir(remove_dir_all(s1))
    IN  { SwitchOutcome(s1, "remove_failed", fetched) }
        \cup UNION { IF ~x.ok THEN { SwitchOutcome(x.st, "extract_failed", fetched) }
                     ELSE { SwitchOutcome(r.st, "switched", fetched) : r \in publish(x.st) } :
                       x \in extract(s2, p) }

\* install that goes on to publish what a failed extraction has left
install_PublishAfterFailedExtract(s, p, fetched) ==
    LET s1 == output_dir(s)
        s2 == output_dir(remove_dir_all(s1))
    IN  { SwitchOutcome(s1, "remove_failed", fetched) }
        \cup UNION { { SwitchOutcome(r.st,
                                     IF ~x.ok THEN "extract_failed"
                                     ELSE IF r.ok THEN "switched" ELSE "publish_failed",
                                     fetched) : r \in publish(x.st) } :
                       x \in extract(s2, p) }

\* switch, lines 149-185: clear the active directory, extract, publish
install(s, p, fetched) ==
    LET s1 == output_dir(s)
        s2 == output_dir(remove_dir_all(s1))
    IN  { SwitchOutcome(s1, "remove_failed", fetched) }
        \cup UNION { IF ~x.ok THEN { SwitchOutcome(x.st, "extract_failed", fetched) }
                     ELSE { SwitchOutcome(r.st, IF r.ok THEN "switched" ELSE "publish_failed",
                                          fetched) : r \in publish(x.st) } :
                       x \in extract(s2, p) }

\* ensure that clears the active directory before it downloads
ensure_ClearFirst(s, version) ==
    LET s1 == output_dir(remove_dir_all(cache_dir(s)))
        p == path(version)
    IN  IF ~exists(s1, p)
        THEN UNION { IF d.ret = ""
                     THEN { SwitchOutcome(d.st, "download_failed", d.fetched) }
                     ELSE install(d.st, p, d.fetched) : d \in download(s1, version) }
        ELSE install(s1, p, FALSE)

\* switch, lines 138-147: download the version when its artifact is missing
ensure(s, version) ==
    LET s1 == cache_dir(s)
        p == path(version)
    IN  IF ~exists(s1, p)
        THEN UNION { IF d.ret = ""
                     THEN { SwitchOutcome(d.st, "download_failed", d.fetched) }
                     ELSE install(d.st, p, d.fetched) : d \in download(s1, version) }
        ELSE install(s1, p, FALSE)

\* switch without the comparison with current() of line 130
switch_NoShortcut(s, version) ==
    UNION { IF c.result = "panic" THEN { SwitchOutcome(c.st, "panic", FALSE) }
            ELSE IF c.result = "err" THEN { SwitchOutcome(c.st, "probe_failed", FALSE) }
            ELSE ensure(c.st, version) : c \in current(s) }

\* fn switch
switch(s, version) ==
    UNION { IF c.result = "panic" THEN { SwitchOutcome(c.st, "panic", FALSE) }
            ELSE IF c.result = "err" THEN { SwitchOutcome(c.st, "probe_failed", FALSE) }
            ELSE IF version = c.value THEN { SwitchOutcome(c.st, "already_using", FALSE) }
            ELSE ensure(c.st, version) : c \in current(s) }

-----------------------------------------------------------------------------
(* The state machine: one action per command of fn main *)

\* the publish root before the program first runs: at most MaxForeign entries
\* that are not the program's, each in a directory that exists
ForeignRoots ==
    { f \in [PubPaths -> {"absent"} \cup Foreign] :
        Cardinality({ q \in PubPaths : f[q] # "absent" }) <= MaxForeign }

Init ==
    /\ cacheDir = FALSE
    /\ currentDir = FALSE
    /\ cache = [p \in ArtifactPaths |-> "absent"]
    /\ active = {}
    /\ pub \in ForeignRoots
    /\ pubDirs = { Parent(q) : q \in { x \in PubPaths : pub[x] # "absent" } }
    /\ last = [op |-> "start", version |-> "", result |-> "", fetched |-> FALSE, ret |-> ""]

\* the filesystem after a command
Becomes(s) ==
    /\ cacheDir' = s.cacheDir
    /\ currentDir' = s.currentDir
    /\ cache' = s.cache
    /\ active' = s.active
    /\ pub' = s.pub
    /\ pubDirs' = s.pubDirs

Download(version) ==
    \E o \in download(FS, version) :
        /\ Becomes(o.st)
        /\ last' = [op |-> "download", version |-> version, result |-> o.result,
                    fetched |-> o.fetched, ret |-> o.ret]

Switch(version) ==
    \E o \in switch(FS, version) :
        /\ Becomes(o.st)
        /\ last' = [op |-> "switch", version |-> version, result |-> o.result,
                    fetched |-> o.fetched, ret |-> ""]

Current ==
    \E o \in current(FS) :
        /\ Becomes(o.st)
        /\ last' = [op |-> "current", version |-> o.value, result |-> o.result,
                    fetched |-> FALSE, ret |-> ""]

Purge(version) ==
    \E o \in purge(FS, version) :
        /\ Becomes(o.st)
        /\ last' = [op |-> "purge", version |-> version, result |-> o.result,
                    fetched |-> FALSE, ret |-> ""]

Next ==
    \/ \E version \in Versions : Download(version)
    \/ \E version \in Versions : Switch(version)
    \/ Current
    \/ \E version \in Versions : Purge(version)

Spec == Init /\ [][Next]_vars

TypeOK ==
    /\ cacheDir \in BOOLEAN
    /\ currentDir \in BOOLEAN
    /\ cache \in [ArtifactPaths -> {"absent", "empty", "partial", "full"}]
    /\ \A e \in active : e.ver \in Versions /\ e.kind \in {"dir", "file"}
    /\ pub \in [PubPaths -> PubKinds]
    /\ pubDirs \subseteq OutDirs

\* the active directory exists whenever something is in it
ActiveInDir == active # {} => currentDir /\ cacheDir

-----------------------------------------------------------------------------
(* Properties *)

\* what current() answers in a state, without the directories it creates
Probe(s) == { [result |-> c.result, value |-> c.value] : c \in current(s) }

\* the entries of the active tree that switch publishes: those directly under
\* bin and lib and those directly under each entry of share
SourcePaths(s) ==
    children(s, <<"bin">>) \cup children(s, <<"lib">>)
    \cup UNION { children(s, e) : e \in children(s, <<"share">>) }

Switched == last.op = "switch" /\ last.result = "switched"

DownloadErrors == {"net_error", "bad_status", "create_failed", "write_failed"}

C2_DownloadIdempotent ==
    [][ /\ \A v \in Versions :
              (last'.op = "download" /\ last'.version = v /\ exists(FS, path(v)))
                 => /\ last'.result = "already_downloaded"
                    /\ ~last'.fetched
                    /\ last'.ret = path(v)
                    /\ cache' = cache
        /\ (/\ last.op = "download" /\ last.result = "downloaded"
            /\ last'.op = "download" /\ last'.version = last.version)
              => /\ last.fetched /\ ~last'.fetched
                 /\ last'.ret = last.ret
                 /\ cache' = cache ]_vars

C2_Witness ==
    /\ last.op = "download" /\ last.result = "already_downloaded"
    /\ last.ret = path(last.version)
    /\ \E p \in ArtifactPaths : cache[p] = "absent" /\ p # path("None")

\* C3 as stated: when current() answers v, switch(v) changes nothing on the
\* filesystem, directories included, and reports the no-op.
C3_NoopMutatesNothing ==
    [][ \A v \in Versions :
          (/\ last'.op = "switch" /\ last'.version = v
           /\ [result |-> "ok", value |-> v] \in Probe(FS))
             => last'.result = "already_using" /\ FS' = FS ]_vars

\* C3 as amended: when current() answers v, switch(v) reports the no-op,
\* fetches nothing and leaves the artifacts, the active tree and the publish
\* root as they are; the only change it can make is to create the cache root
\* and the active directory, and only when v is the text for "nothing
\* installed".
C3_NoopKeepsContents ==
    [][ \A v \in Versions :
          (/\ last'.op = "switch" /\ last'.version = v
           /\ [result |-> "ok", value |-> v] \in Probe(FS))
             => /\ last'.result = "already_using"
                /\ ~last'.fetched
                /\ cache' = cache /\ active' = active
                /\ pub' = pub /\ pubDirs' = pubDirs
                /\ cacheDir' /\ currentDir'
                /\ v # "None" => (cacheDir' = cacheDir /\ currentDir' = currentDir) ]_vars

C3_Witness ==
    /\ last.op = "switch" /\ last.result = "already_using"
    /\ last.version = "None"
    /\ \E p \in ArtifactPaths : cache[p] = "full"

\* C4: after a successful switch every symlink the program has made in the
\* publish root resolves to an entry of the tree that is now active.
C4_NoStaleLinks ==
    Switched => \A q \in PubPaths : pub[q] = "link" => q \in ActivePaths(FS)

\* C5: after a successful switch every entry directly under the active bin and
\* lib has a symlink of its name in the publish root's bin (lib) that resolves
\* to that entry.
C5_BinLibPublished ==
    Switched =>
        \A d \in {<<"bin">>, <<"lib">>} :
            /\ is_dir(FS, d)
            /\ \A e \in children(FS, d) :
                   e \in PubPaths /\ pub[e] = "link" /\ Parent(e) \in pubDirs

C5_Witness ==
    /\ Switched
    /\ children(FS, <<"bin">>) # {} /\ children(FS, <<"lib">>) # {}
    /\ \E v \in Versions : v # last.version /\ cache[path(v)] = "full"

\* C6 as stated: after a successful switch every entry of the active share
\* has a symlink in the publish root's share. The program makes
\* .local/share/<entry> a directory, never a symlink, so the place a symlink
\* for the entry can be is below that directory.
C6_EveryShareEntryLinked ==
    Switched =>
        \A e \in children(FS, <<"share">>) :
            \E q \in PubPaths : Parent(q) = e /\ pub[q] = "link"

\* C6 as amended: after a successful switch every entry of the active share is
\* a directory, and every entry directly inside it has a symlink of its name
\* under the publish root's share/<entry> that resolves to it (an empty
\* directory gets nothing; a plain file makes the switch fail).
C6_ShareChildrenPublished ==
    Switched =>
        \A e \in children(FS, <<"share">>) :
            /\ is_dir(FS, e)
            /\ \A c \in children(FS, e) :
                   c \in PubPaths /\ pub[c] = "link" /\ e \in pubDirs

C6_Witness ==
    /\ Switched
    /\ \E e \in children(FS, <<"share">>) : children(FS, e) = {}
    /\ \E e \in children(FS, <<"share">>) : children(FS, e) # {}

\* C7: a publish replaces whatever is at the path of a source entry (a live
\* symlink, a dangling symlink, a regular file, a directory) by a symlink to
\* the entry, and does not fail because something was there.
C7_ReplacesWhateverExists ==
    [][ (last'.op = "switch" /\ last'.result \in {"switched", "publish_failed"})
          => \A q \in PubPaths :
                 (pub[q] # "absent" /\ q \in SourcePaths(FS')) => pub'[q] = "link" ]_vars

\* C8: a switch, successful or not, leaves every entry of the publish root's
\* bin, lib and share/<entry> whose name matches no entry of the tree that is
\* active afterwards where and as it was.
C8_UnrelatedPreserved ==
    [][ last'.op = "switch"
          => /\ \A q \in PubPaths :
                    (pub[q] # "absent" /\ q \notin SourcePaths(FS')) => pub'[q] = pub[q]
             /\ pubDirs \subseteq pubDirs' ]_vars

C8_Witness ==
    /\ Switched
    /\ \E q \in PubPaths :
          /\ pub[q] \in Foreign
          /\ q \notin SourcePaths(FS)
          /\ children(FS, Parent(q)) # {}

\* C9 as stated: purge(v) without an artifact of v reports "not found" and
\* changes nothing on the filesystem, directories included.
C9_NotFoundMutatesNothing ==
    [][ \A v \in Versions :
          (last'.op = "purge" /\ last'.version = v /\ ~exists(FS, path(v)))
             => last'.result = "not_found" /\ FS' = FS ]_vars

\* C9 as amended: purge(v) without an artifact of v reports "not found" and
\* leaves the artifacts, the active directory and the publish root as they
\* are; the only change it can make is to create the cache root.
C9_NotFoundKeepsContents ==
    [][ \A v \in Versions :
          (last'.op = "purge" /\ last'.version = v /\ ~exists(FS, path(v)))
             => /\ last'.result = "not_found"
                /\ cache' = cache /\ active' = active /\ currentDir' = currentDir
                /\ pub' = pub /\ pubDirs' = pubDirs
                /\ cacheDir' ]_vars

C9_Witness ==
    /\ last.op = "purge" /\ last.result = "not_found"
    /\ \E p \in ArtifactPaths : cache[p] = "full"
    /\ active # {}

\* C10: purge(v) with the artifact of v present removes that artifact and no
\* other (or reports that the removal failed and removes nothing), and leaves
\* the active directory and the publish root alone, so that current() answers
\* after it what it answered before.
C10_PurgeExactlyOne ==
    [][ \A v \in Versions :
          (last'.op = "purge" /\ last'.version = v /\ exists(FS, path(v)))
             => /\ last'.result \in {"purged", "remove_failed"}
                /\ last'.result = "purged"
                      => cache' = [cache EXCEPT ![path(v)] = "absent"]
                /\ last'.result = "remove_failed" => cache' = cache
                /\ active' = active /\ currentDir' = currentDir /\ cacheDir' = cacheDir
                /\ pub' = pub /\ pubDirs' = pubDirs
                /\ Probe(FS') = Probe(FS) ]_vars

C10_Witness ==
    /\ last.op = "purge" /\ last.result = "purged"
    /\ [result |-> "ok", value |-> last.version] \in Probe(FS)
    /\ last.version # "None"
    /\ \E p \in ArtifactPaths : cache[p] = "full"

\* whether an output of `nvim --version` is one current() cannot take a
\* version from: the process did not start, stdout is not text, there is no
\* first line, or the first line has fewer than two fields
Unparsable(out) ==
    \/ ~out.spawned
    \/ ~out.utf8
    \/ Len(out.lines) = 0
    \/ Len(out.lines[1]) < 2

\* whether the executable of a version prints that version's own name
SelfReports(v) ==
    /\ ProbeOutputs(v) # {}
    /\ \A out \in ProbeOutputs(v) : ~Unparsable(out) /\ out.lines[1][2] = v

\* the tree a complete extraction of a version's archive leaves
TreeOf(v) ==
    { [path |-> ArchiveOf(v)[i].path, kind |-> ArchiveOf(v)[i].kind, ver |-> v] :
        i \in 1..Len(ArchiveOf(v)) }

\* C11: with no executable at current/nvim-linux64/bin/nvim, current() starts
\* no process and answers the text "None" as a success, never an error.
C11_ProbeSentinel ==
    /\ nvim \notin ActivePaths(FS)
          => \A c \in current(FS) :
                 c.result = "ok" /\ c.value = "None" /\ ~c.invoked
    /\ (last.op = "current" /\ nvim \notin ActivePaths(FS))
          => last.result = "ok" /\ last.version = "None"

C11_Witness ==
    /\ last.op = "current" /\ last.result = "ok" /\ last.version = "None"
    /\ active # {} /\ nvim \notin ActivePaths(FS)

\* C12: with the executable present, a probe whose process does not start,
\* whose output is not text or whose first line gives no second field (an
\* empty output included) makes current() return an error: no success value
\* and no abort.
C12_ProbeFailureIsError ==
    (/\ last.op = "current"
     /\ nvim \in ActivePaths(FS)
     /\ \A out \in ActiveOutputs(FS) : Unparsable(out))
       => last.result = "err"

\* C13: after a switch the active directory holds entries of one version
\* only, and a switch that got as far as extracting has left no entry of the
\* tree that was there before.
C13_SingleActiveVersion ==
    /\ \A e1, e2 \in active : e1.ver = e2.ver
    /\ (last.op = "switch"
        /\ last.result \in {"extract_failed", "switched", "publish_failed"})
          => active \subseteq TreeOf(last.version)

C13_Witness ==
    /\ Switched
    /\ active = TreeOf(last.version)
    /\ \E q \in PubPaths : pub[q] = "link" /\ q \notin ActivePaths(FS)

\* C14: a switch whose download fails returns the error with the active
\* directory, the artifacts and the publish root as they were, so that
\* current() answers what it answered before.
C14_DownloadFailureKeepsActive ==
    [][ (last'.op = "switch" /\ last'.result = "download_failed")
          => /\ ~exists(FS, path(last'.version))
             /\ last'.fetched
             /\ active' = active /\ cache' = cache
             /\ pub' = pub /\ pubDirs' = pubDirs
             /\ Probe(FS') = Probe(FS) ]_vars

C14_Witness ==
    /\ last.op = "switch" /\ last.result = "download_failed"
    /\ \E v \in Versions \ {last.version} :
          /\ active = TreeOf(v)
          /\ [result |-> "ok", value |-> v] \in Probe(FS)
          /\ \A q \in SourcePaths(FS) : pub[q] = "link"

\* C15: a switch reports "Switched to version" only with the whole archive
\* extracted and bin, lib and every entry of share published: each of them is
\* a directory and each of their entries has its symlink.
C15_SuccessMeansPublished ==
    Switched =>
        /\ active = TreeOf(last.version)
        /\ cache[path(last.version)] = "full"
        /\ \A d \in {<<"bin">>, <<"lib">>, <<"share">>} : is_dir(FS, d)
        /\ \A e \in children(FS, <<"share">>) : is_dir(FS, e)
        /\ \A q \in SourcePaths(FS) : q \in PubPaths /\ pub[q] = "link"

C15_Witness ==
    /\ Switched
    /\ last.fetched
    /\ \E q \in PubPaths : pub[q] \in Foreign

\* C16: a switch whose extraction fails returns the error with nothing of the
\* previous tree left, the active directory empty or holding a part of the
\* new archive, and the publish root as it was before the switch.
C16_ExtractFailureNoRollback ==
    [][ (last'.op = "switch" /\ last'.result = "extract_failed")
          => /\ active' \subseteq TreeOf(last'.version)
             /\ active' # TreeOf(last'.version)
             /\ \A e \in active : e.ver # last'.version => e \notin active'
             /\ currentDir'
             /\ pub' = pub /\ pubDirs' = pubDirs ]_vars

C16_Witness ==
    /\ last.op = "switch" /\ last.result = "extract_failed"
    /\ active # {}
    /\ \E q \in PubPaths : pub[q] = "link" /\ q \notin ActivePaths(FS)

\* C17: with the executable present and its probe failing, switch returns
\* the probe's error and changes nothing on the filesystem.
C17_ProbeFailureStopsSwitch ==
    [][ (/\ last'.op = "switch"
         /\ nvim \in ActivePaths(FS)
         /\ \A out \in ActiveOutputs(FS) : Unparsable(out))
          => last'.result = "probe_failed" /\ ~last'.fetched /\ FS' = FS ]_vars

\* C18: for a version whose executable prints the version's own name, a
\* switch(v) right after a successful switch(v) reports the no-op and leaves
\* the filesystem as the first switch left it.
C18_SwitchIdempotent ==
    [][ (/\ last.op = "switch" /\ last.result = "switched"
         /\ SelfReports(last.version)
         /\ last'.op = "switch" /\ last'.version = last.version)
          => last'.result = "already_using" /\ ~last'.fetched /\ FS' = FS ]_vars

C18_Witness ==
    /\ last.op = "switch" /\ last.result = "already_using"
    /\ SelfReports(last.version)
    /\ active = TreeOf(last.version)
    /\ \A q \in SourcePaths(FS) : pub[q] = "link"

====
